---------------------------- MODULE Spec2Model ----------------------------
(***************************************************************************)
(* RouteTO: the spatial incident index (backend/services/spatial_index.py, *)
(* spatial_data_loader.py) and the route-risk scoring and comparison       *)
(* engine (backend/services/route_analysis.py).                            *)
(*                                                                         *)
(* Conventions of the model                                                *)
(*  - Planar (UTM) coordinates are integers, in metres.  The projection    *)
(*    itself (pyproj) is a library call; the model starts from the         *)
(*    projected values.                                                    *)
(*  - Python floats are modelled as exact rationals [n, d], d > 0, in      *)
(*    lowest terms (Rat).                                                  *)
(*  - A Euclidean distance is carried as its square (d2); comparing and    *)
(*    sorting squares of non-negative numbers is comparing and sorting the *)
(*    numbers.                                                             *)
(*  - A call is recorded in `call` (operation and arguments) and its       *)
(*    outcome in `ret` (status "ok" with the value, or "raised" with the   *)
(*    exception type).                                                     *)
(*  - Time is counted in half days, so that Timedelta.days (a floor) is a  *)
(*    real conversion.  Time zones are not modelled: all timestamps are    *)
(*    taken to be of one kind, so that they can be subtracted and compared.*)
(***************************************************************************)
EXTENDS Integers, Sequences, FiniteSets

VARIABLES
    points,     \* spatial_index['points']: the projected points, in df row order
    weights,    \* spatial_index['weights']: same order
    call,       \* the last call: [op |-> ..., <arguments>]
    ret,        \* its outcome: [status |-> "ok" | "raised" | "none", ...]
    counted,    \* score_route: the indices its loop counted (incident_count += 1)
    clock,      \* the wall clock, pd.Timestamp.now(), in half days
    records,    \* spatial_index['df']: the rows of the index, in order
    SPATIAL_INDEX,  \* spatial_data_loader.SPATIAL_INDEX: the cached instance
    DATA_PATH,  \* settings.DATA_PATH
    DF,         \* data_loader.DF: the cached frame of the basic loader
    tmpfile,    \* the file /tmp/standardized_crimes.csv
    threads,    \* the request threads: position and locals of each
    builds      \* how many index instances have been built so far

service == <<SPATIAL_INDEX, DATA_PATH, DF, tmpfile, threads, builds>>

vars == <<points, weights, call, ret, counted, clock, records, service>>

\* The request threads of the server.
Threads == {"t1", "t2"}

\* SPATIAL_INDEX = None, and an index instance: which build made it (id) and
\* the file whose rows it holds (data).
NoIndex == [id |-> 0, data |-> "none"]

\* A thread with no request.  Of a request in progress: the statement it is
\* at (pc), the call and its argument, the locals of ensure_spatial_index
\* (data: the standardized rows, built: what load_index made), the index
\* the call got (ref) and the instance each piece it read came from, the
\* outcome; and, for the properties, the index and path when the call began
\* and whether a reload cleared the cache while the call was in progress.
IdleThread ==
    [pc |-> "idle", op |-> "none", arg |-> "none", ref |-> NoIndex,
     data |-> "none", built |-> "none", pieces |-> <<>>, status |-> "none",
     exc |-> "none", at |-> "none",
     old_index |-> NoIndex, old_path |-> "none", reloaded |-> FALSE]

\* The service right after import: nothing cached, the configured path.
InitService ==
    /\ SPATIAL_INDEX = NoIndex
    /\ DATA_PATH = "a.csv"
    /\ DF = "none"
    /\ tmpfile = "absent"
    /\ threads = [t \in Threads |-> IdleThread]
    /\ builds = 0

---------------------------------------------------------------------------
(* Bounds of the model.                                                    *)

MaxPoints == 3

---------------------------------------------------------------------------
(* Arithmetic.                                                             *)

Abs(a) == IF a < 0 THEN -a ELSE a

Min2(a, b) == IF a <= b THEN a ELSE b

Max2(a, b) == IF a >= b THEN a ELSE b

RECURSIVE GCD(_, _)
GCD(a, b) == IF b = 0 THEN a ELSE GCD(b, a % b)

\* The rational n/d (d # 0) in lowest terms with a positive denominator.
Rat(n, d) ==
    LET g == GCD(Abs(n), Abs(d))
        s == IF d < 0 THEN -1 ELSE 1
    IN  [n |-> (s * n) \div g, d |-> (s * d) \div g]

RatLt(a, b) == a.n * b.d < b.n * a.d

RatLe(a, b) == a.n * b.d <= b.n * a.d

RatAdd(a, b) == Rat(a.n * b.d + b.n * a.d, a.d * b.d)

RatSub(a, b) == Rat(a.n * b.d - b.n * a.d, a.d * b.d)

\* a / b for b # 0 (Python raises ZeroDivisionError otherwise; callers guard).
RatDiv(a, b) == Rat(a.n * b.d, a.d * b.n)

Zero == Rat(0, 1)

---------------------------------------------------------------------------
(* Planar geometry.                                                        *)

Pt(x, y) == [x |-> x, y |-> y]

\* shapely Point.distance(Point), squared.
Dist2(p, q) == (p.x - q.x) * (p.x - q.x) + (p.y - q.y) * (p.y - q.y)

\* Closed box test: how STRtree.query (no predicate) matches a point against
\* the bounding box of the query geometry.
InBox(p, minx, miny, maxx, maxy) ==
    /\ minx <= p.x /\ p.x <= maxx
    /\ miny <= p.y /\ p.y <= maxy

---------------------------------------------------------------------------
(* The index handed out by load_index.                                     *)

\* Incident locations the model draws from (metres).  Relative to the routes
\* and query centres below:
\*   (500, 0)     on the 1 km route; the first query centre
\*   (500, 180)   at distance exactly 180 from the route and from (500, 0)
\*   (1133, 121)  and (1133, -121): 179.8 m from (1000, 0), same distance
\*   (1180, 180)  corner of the 180 m bounding boxes around (1000, 0)
Sites == {Pt(500, 0), Pt(500, 180), Pt(1133, 121), Pt(1133, -121), Pt(1180, 180)}

\* Weights the model draws from: 0.5 and 1.0 (crime_weight yields [0.2, 1.0]).
WeightSet == {Rat(1, 2), Rat(1, 1)}

SeqsUpTo(S, n) == UNION {[1..k -> S] : k \in 0..n}

Indices == 1..Len(points)

NoCall == [op |-> "none"]

NoRet == [status |-> "none"]

\* load_index: points and weights are built from the same rows, one each,
\* and there is at least one row.
InitIndex ==
    /\ points \in SeqsUpTo(Sites, MaxPoints) \ {<<>>}
    /\ weights \in [1..Len(points) -> WeightSet]
    /\ call = NoCall
    /\ ret = NoRet
    /\ counted = {}
    /\ clock = 0
    /\ records = [i \in 1..Len(points) |-> [pt |-> points[i], weight |-> weights[i]]]
    /\ InitService

\* No call is in progress: the service is ready for the next request.
Idle == call.op = "none"

\* The endpoint hands the outcome to its client; the index stays as it is.
Return ==
    /\ ~Idle
    /\ call' = NoCall
    /\ ret' = NoRet
    /\ counted' = {}
    /\ UNCHANGED <<points, weights, clock, records, service>>

---------------------------------------------------------------------------
(* Point queries: spatial_data_loader.query_radius and query_nearest.      *)

\* Query centres (already projected), radii in metres, result limits, counts.
Centres == {Pt(500, 0), Pt(1000, 0)}

Radii == {0, 180, 700}

DefaultLimit == 1000

Limits == {1, 2, DefaultLimit}

Counts == {1, 2, 3}

\* tree.query(center_point.buffer(radius)): the indices of the points inside
\* the bounding box of the buffer polygon.  The buffer of a point is a polygon
\* inscribed in the circle that touches it on both axes, so its box is the
\* square of half-side radius; with radius <= 0 the buffer is the empty
\* polygon, which matches nothing.
RadiusCandidates(c, r) ==
    IF r <= 0 THEN {}
    ELSE {i \in Indices : InBox(points[i], c.x - r, c.y - r, c.x + r, c.y + r)}

WithinRadiusStrict(c, r) ==
    {i \in RadiusCandidates(c, r) : Dist2(c, points[i]) < r * r}

\* matches_df[matches_df['distance_meters'] <= radius_meters]
WithinRadius(c, r) ==
    {i \in RadiusCandidates(c, r) : Dist2(c, points[i]) <= r * r}

Row(c, i) == [idx |-> i, d2 |-> Dist2(c, points[i])]

Ascending(rows) ==
    \A j \in 1..(Len(rows) - 1) : rows[j].d2 <= rows[j + 1].d2

\* sort_values('distance_meters'): pandas' default sort (quicksort) is not
\* stable and the candidates come in the tree's order, so rows at equal
\* distance may come out in any order.
SortedOrders(c, S) ==
    {[j \in 1..Cardinality(S) |-> Row(c, f[j])] :
        f \in {g \in [1..Cardinality(S) -> S] :
                 /\ \A a, b \in 1..Cardinality(S) : a # b => g[a] # g[b]
                 /\ \A a \in 1..(Cardinality(S) - 1) :
                        Dist2(c, points[g[a]]) <= Dist2(c, points[g[a + 1]])}}

\* DataFrame.head(n) and list[:n], for n >= 0.
Take(s, n) == SubSeq(s, 1, Min2(n, Len(s)))

\* within_radius.sort_values('distance_meters'), or the empty frame returned
\* early when the tree gave no candidate.
SortedWithin(c, r) ==
    IF RadiusCandidates(c, r) = {} THEN {<<>>}
    ELSE SortedOrders(c, WithinRadius(c, r))

\* The results query_radius may return.
RadiusResults(c, r, limit) == {Take(s, limit) : s \in SortedWithin(c, r)}

QueryRadius(c, r, limit) ==
    /\ Idle
    /\ \E rows \in RadiusResults(c, r, limit) :
          ret' = [status |-> "ok", rows |-> rows]
    /\ call' = [op |-> "query_radius", c |-> c, r |-> r, limit |-> limit]
    /\ UNCHANGED <<points, weights, counted, clock, records, service>>

\* Two query_radius calls of one client on the same index, same centre and
\* limit, radii r <= r2.  The sort is deterministic: when both calls sort the
\* same rows they get the same order; rows at equal distance may change
\* places only when the sorted frames differ.
QueryRadiusTwice(c, r, r2, limit) ==
    /\ Idle
    /\ r <= r2
    /\ \E s1 \in SortedWithin(c, r), s2 \in SortedWithin(c, r2) :
          /\ WithinRadius(c, r) = WithinRadius(c, r2) => s1 = s2
          /\ ret' = [status |-> "ok", rows |-> Take(s1, limit),
                     rows2 |-> Take(s2, limit)]
    /\ call' = [op |-> "query_radius_twice", c |-> c, r |-> r, r2 |-> r2,
                limit |-> limit]
    /\ UNCHANGED <<points, weights, counted, clock, records, service>>

\* The least distance from c to an indexed point.
IsNearest(c, i) == \A k \in Indices : Dist2(c, points[i]) <= Dist2(c, points[k])

\* list(tree.nearest(center_point, return_all=False, max_distance=inf)) where
\* the call is accepted: STRtree.nearest yields the nearest geometry only.
TreeNearest(c) ==
    IF Indices = {} THEN {<<>>} ELSE {<<i>> : i \in {k \in Indices : IsNearest(c, k)}}

\* list.sort(key=distance): Python's sort is stable (insertion into a sorted
\* prefix, after the last entry that is not greater).
RECURSIVE InsertByDist(_, _)
InsertByDist(sorted, row) ==
    IF sorted = <<>> THEN <<row>>
    ELSE IF sorted[Len(sorted)].d2 <= row.d2 THEN Append(sorted, row)
    ELSE Append(InsertByDist(SubSeq(sorted, 1, Len(sorted) - 1), row),
                sorted[Len(sorted)])

RECURSIVE SortByDist(_)
SortByDist(rows) ==
    IF rows = <<>> THEN <<>>
    ELSE InsertByDist(SortByDist(SubSeq(rows, 1, Len(rows) - 1)), rows[Len(rows)])

\* query_nearest after the tree call: the window of 2 * count candidates,
\* sorted by distance, cut to count.
NearestRows(c, nearest_idx, count) ==
    IF nearest_idx = <<>> THEN <<>>
    ELSE LET limited_idx == Take(nearest_idx, count * 2)
             distances == [j \in 1..Len(limited_idx) |-> Row(c, limited_idx[j])]
         IN  Take(SortByDist(distances), count)

\* STRtree.nearest takes the geometry only: the keywords return_all and
\* max_distance are those of another library's nearest, and the call raises
\* TypeError.
QueryNearestRaises(c, count) ==
    /\ Idle
    /\ ret' = [status |-> "raised", exc |-> "TypeError"]
    /\ call' = [op |-> "query_nearest", c |-> c, count |-> count]
    /\ UNCHANGED <<points, weights, counted, clock, records, service>>

QueryNearestReturns(c, count) ==
    /\ Idle
    /\ \E nearest_idx \in TreeNearest(c) :
          ret' = [status |-> "ok", rows |-> NearestRows(c, nearest_idx, count)]
    /\ call' = [op |-> "query_nearest", c |-> c, count |-> count]
    /\ UNCHANGED <<points, weights, counted, clock, records, service>>

QueryNearest(c, count) ==
    \/ QueryNearestRaises(c, count)
    \/ QueryNearestReturns(c, count)

NextQuery ==
    \/ \E c \in Centres, r \in Radii, limit \in Limits : QueryRadius(c, r, limit)
    \/ \E c \in Centres, r \in Radii, r2 \in Radii, limit \in Limits :
          QueryRadiusTwice(c, r, r2, limit)
    \/ \E c \in Centres, count \in Counts : QueryNearest(c, count)
    \/ Return

\* Queries read the points only: the index is drawn with unit weights.
InitQuery ==
    /\ InitIndex
    /\ \A i \in Indices : weights[i] = Rat(1, 1)

SpecQuery == InitQuery /\ [][NextQuery]_vars

---------------------------------------------------------------------------
(* Properties of the point queries.                                        *)

RowIds(rows) == {rows[j].idx : j \in 1..Len(rows)}

\* The indexed points at planar distance <= r from c (r >= 0).
TrueWithin(c, r) == {i \in Indices : Dist2(c, points[i]) <= r * r}

\* C1 (as claimed): query_nearest(c, count) on n points returns exactly
\* min(count, n) rows, in ascending distance order, and no point left out is
\* closer than a point returned.
C1_NearestExact ==
    (call.op = "query_nearest" /\ ret.status = "ok") =>
        /\ Len(ret.rows) = Min2(call.count, Len(points))
        /\ Ascending(ret.rows)
        /\ \A j \in 1..Len(ret.rows) : \A k \in Indices \ RowIds(ret.rows) :
              ret.rows[j].d2 <= Dist2(call.c, points[k])

\* C2 (as claimed): query_radius returns, ascending, exactly the points at
\* distance <= radius, whatever the limit.
C2_RadiusExact ==
    call.op = "query_radius" =>
        /\ ret.status = "ok"
        /\ Ascending(ret.rows)
        /\ RowIds(ret.rows) = TrueWithin(call.c, call.r)

\* C2 (amended): with radius > 0, query_radius returns, ascending and each
\* once, the min(limit, m) closest of the m points at distance <= radius (a
\* point at distance exactly radius is one of the m; all m when m <= limit);
\* no returned point is farther than radius and no point left out is closer
\* than a returned one.  With radius 0 it returns nothing.
C2_RadiusWithinLimit ==
    call.op = "query_radius" =>
        LET rows == ret.rows
            within == TrueWithin(call.c, call.r)
        IN  /\ ret.status = "ok"
            /\ Ascending(rows)
            /\ Cardinality(RowIds(rows)) = Len(rows)
            /\ \A j \in 1..Len(rows) :
                  rows[j].d2 = Dist2(call.c, points[rows[j].idx])
            /\ call.r > 0 =>
                  /\ RowIds(rows) \subseteq within
                  /\ Len(rows) = Min2(call.limit, Cardinality(within))
                  /\ \A j \in 1..Len(rows) : \A k \in within \ RowIds(rows) :
                        rows[j].d2 <= Dist2(call.c, points[k])
            /\ call.r = 0 => rows = <<>>

\* C2 witness: more points qualify than the limit allows, one of them at
\* distance exactly radius, and the result is cut to the limit.
C2_Witness ==
    /\ call.op = "query_radius"
    /\ call.r > 0
    /\ Cardinality(TrueWithin(call.c, call.r)) > call.limit
    /\ \E i \in Indices : Dist2(call.c, points[i]) = call.r * call.r
    /\ Len(ret.rows) = call.limit

---------------------------------------------------------------------------
(* Route scoring: route_analysis.linestring_from_lonlat and score_route.   *)

\* Route geometries the model draws from (projected vertices; every segment
\* is parallel to an axis, so that lengths are integers):
\*   a straight 1 km route, a 2 km route with a right-angle turn at (1000, 0),
\*   a 250 m route, a two-vertex route of zero length, a one-vertex route and
\*   a route with no vertex.
RStraight == <<Pt(0, 0), Pt(1000, 0)>>

RCorner == <<Pt(0, 0), Pt(1000, 0), Pt(1000, 1000)>>

RShort == <<Pt(375, 0), Pt(625, 0)>>

RZero == <<Pt(0, 0), Pt(0, 0)>>

ROne == <<Pt(0, 0)>>

RNone == <<>>

RouteSet == {RStraight, RCorner, RShort, RZero, ROne, RNone}

DefaultBuffer == 180

Buffers == {DefaultBuffer}

\* Length of an axis-parallel segment.
SegLength(a, b) == Abs(a.x - b.x) + Abs(a.y - b.y)

\* line.length
RECURSIVE LineLength(_)
LineLength(coords) ==
    IF Len(coords) < 2 THEN 0
    ELSE SegLength(coords[1], coords[2]) + LineLength(Tail(coords))

Xs(coords) == {coords[j].x : j \in 1..Len(coords)}

Ys(coords) == {coords[j].y : j \in 1..Len(coords)}

MinOf(S) == CHOOSE m \in S : \A k \in S : m <= k

MaxOf(S) == CHOOSE m \in S : \A k \in S : m >= k

\* tree.query(route_buffer): the indices of the points inside the bounding box
\* of the buffer polygon, which is the box of the vertices widened by buffer_m.
RouteCandidates(coords, r) ==
    {i \in Indices : InBox(points[i], MinOf(Xs(coords)) - r, MinOf(Ys(coords)) - r,
                           MaxOf(Xs(coords)) + r, MaxOf(Ys(coords)) + r)}

\* line.buffer(buffer_m) with shapely's defaults (round caps and joins, 16
\* segments to a quarter circle): the union, over the segments, of the
\* rectangle of half-width buffer_m around the segment and, over the vertices,
\* of the regular 64-gon inscribed in the circle of radius buffer_m with
\* corners on the axes.  CosTab[k + 1] = 10^6 * cos((2k + 1) * pi / 64), the
\* directions of the 64-gon's sides in the first quadrant.
CosTab == <<998795, 989177, 970031, 941544, 903989, 857729, 803208, 740951,
            671559, 595699, 514103, 427555, 336890, 242980, 146730, 49068>>

\* (dx, dy) lies strictly inside the 64-gon of radius r around the origin.
InGon(dx, dy, r) ==
    /\ Abs(dx) <= r
    /\ Abs(dy) <= r
    /\ \A k \in 1..16 :
          Abs(dx) * CosTab[k] + Abs(dy) * CosTab[17 - k] < r * CosTab[1]

\* p lies strictly inside the rectangle of half-width r around segment a-b.
InOpenRect(p, a, b, r) ==
    IF a.y = b.y
    THEN /\ Min2(a.x, b.x) < p.x /\ p.x < Max2(a.x, b.x)
         /\ Abs(p.y - a.y) < r
    ELSE /\ Min2(a.y, b.y) < p.y /\ p.y < Max2(a.y, b.y)
         /\ Abs(p.x - a.x) < r

\* route_buffer.contains(point): the point is in the interior of the polygon.
BufferContains(coords, r, p) ==
    \/ \E j \in 1..(Len(coords) - 1) : InOpenRect(p, coords[j], coords[j + 1], r)
    \/ \E j \in 1..Len(coords) : InGon(p.x - coords[j].x, p.y - coords[j].y, r)

RECURSIVE SetToSeq(_)
SetToSeq(S) ==
    IF S = {} THEN <<>>
    ELSE LET m == MinOf(S) IN <<m>> \o SetToSeq(S \ {m})

\* The loop of score_route over the candidate indices still to visit: the
\* running total_weight, incident_count and the indices counted.
RECURSIVE ScoreLoop(_, _, _, _)
ScoreLoop(cands, coords, r, acc) ==
    IF cands = <<>> THEN acc
    ELSE LET idx == Head(cands)
             hit == idx <= Len(points) /\ BufferContains(coords, r, points[idx])
         IN  ScoreLoop(Tail(cands), coords, r,
                 IF hit
                 THEN [total_weight |-> RatAdd(acc.total_weight, weights[idx]),
                       incident_count |-> acc.incident_count + 1,
                       counted |-> acc.counted \cup {idx}]
                 ELSE acc)

Tally(coords, r) ==
    ScoreLoop(SetToSeq(RouteCandidates(coords, r)), coords, r,
              [total_weight |-> Zero, incident_count |-> 0, counted |-> {}])

\* The early return of score_route for a line of zero length: three keys.
ZeroLengthResult == [score |-> Zero, incidents |-> 0, length_km |-> Zero]

ScoreDictPerIncident(coords, r) ==
    LET length_km == Rat(LineLength(coords), 1000)
        t == Tally(coords, r)
    IN  IF length_km = Zero THEN ZeroLengthResult
        ELSE [score |-> IF t.incident_count > 0
                        THEN RatDiv(t.total_weight, Rat(t.incident_count, 1))
                        ELSE Zero,
              incidents |-> t.incident_count,
              length_km |-> length_km,
              total_weight |-> t.total_weight]

\* The dict score_route returns for a line through coords (two vertices or
\* more).
ScoreDict(coords, r) ==
    LET length_km == Rat(LineLength(coords), 1000)
        t == Tally(coords, r)
    IN  IF length_km = Zero THEN ZeroLengthResult
        ELSE [score |-> RatDiv(t.total_weight, length_km),
              incidents |-> t.incident_count,
              length_km |-> length_km,
              total_weight |-> t.total_weight]

\* linestring_from_lonlat raises ValueError on fewer than two coordinates.
ScoreRouteRaises(coords, r) ==
    /\ Idle
    /\ Len(coords) < 2
    /\ ret' = [status |-> "raised", exc |-> "ValueError"]
    /\ call' = [op |-> "score_route", coords |-> coords, r |-> r]
    /\ counted' = {}
    /\ UNCHANGED <<points, weights, clock, records, service>>

ScoreRouteReturns(coords, r) ==
    /\ Idle
    /\ Len(coords) >= 2
    /\ ret' = [status |-> "ok", value |-> ScoreDict(coords, r)]
    /\ call' = [op |-> "score_route", coords |-> coords, r |-> r]
    /\ counted' = IF LineLength(coords) = 0 THEN {} ELSE Tally(coords, r).counted
    /\ UNCHANGED <<points, weights, clock, records, service>>

\* score_route(linestring_from_lonlat(coords, to_utm), tree, points, weights, r)
ScoreRoute(coords, r) ==
    \/ ScoreRouteRaises(coords, r)
    \/ ScoreRouteReturns(coords, r)

NextRoute ==
    \/ \E coords \in RouteSet, r \in Buffers : ScoreRoute(coords, r)
    \/ Return

SpecRoute == InitIndex /\ [][NextRoute]_vars

---------------------------------------------------------------------------
(* Properties of route scoring.                                            *)

\* Squared planar distance from p to the axis-parallel segment a-b.
SegDist2(p, a, b) ==
    LET cx == Min2(Max2(p.x, Min2(a.x, b.x)), Max2(a.x, b.x))
        cy == Min2(Max2(p.y, Min2(a.y, b.y)), Max2(a.y, b.y))
    IN  Dist2(p, Pt(cx, cy))

\* p is within planar distance r of some point of the polyline.
WithinBuffer(coords, r, p) ==
    \E j \in 1..(Len(coords) - 1) : SegDist2(p, coords[j], coords[j + 1]) <= r * r

RECURSIVE SumWeights(_)
SumWeights(S) ==
    IF S = {} THEN Zero
    ELSE LET i == CHOOSE k \in S : TRUE
         IN  RatAdd(weights[i], SumWeights(S \ {i}))

\* The indexed points the buffer polygon of the route contains.
InsideBuffer(coords, r) == {i \in Indices : BufferContains(coords, r, points[i])}

\* The scenario of the specification: three incidents at one place on a
\* straight 1 km route, weights 0.5, 0.5, 1.0, buffer 180 m.
Scenario ==
    /\ points = <<Pt(500, 0), Pt(500, 0), Pt(500, 0)>>
    /\ weights = <<Rat(1, 2), Rat(1, 2), Rat(1, 1)>>
    /\ call.op = "score_route"
    /\ call.coords = RStraight
    /\ call.r = 180

C5_CountsIffWithinBuffer ==
    (call.op = "score_route" /\ ret.status = "ok"
        /\ LineLength(call.coords) > 0) =>
        counted = {i \in Indices : WithinBuffer(call.coords, call.r, points[i])}

\* C6 (as claimed): scoring a route of fewer than two vertices, or of zero
\* length, never raises and returns the zero sentinel with all four fields.
C6_DegenerateZeroSentinel ==
    (call.op = "score_route" /\ LineLength(call.coords) = 0) =>
        /\ ret.status = "ok"
        /\ ret.value = [score |-> Zero, incidents |-> 0, length_km |-> Zero,
                        total_weight |-> Zero]

---------------------------------------------------------------------------
(* Risk bands and batch analysis: route_analysis._categorize_risk and      *)
(* analyze_routes.                                                         *)

MaxBatch == 2

MaxScoreCenti == 700

CategorizeRiskInclusive(score) ==
    IF RatLe(score, Rat(1, 1)) THEN "low"
    ELSE IF RatLe(score, Rat(3, 1)) THEN "medium"
    ELSE IF RatLe(score, Rat(6, 1)) THEN "high"
    ELSE "very_high"

\* _categorize_risk
CategorizeRisk(score) ==
    IF RatLt(score, Rat(1, 1)) THEN "low"
    ELSE IF RatLt(score, Rat(3, 1)) THEN "medium"
    ELSE IF RatLt(score, Rat(6, 1)) THEN "high"
    ELSE "very_high"

\* Scores from 0.00 to MaxScoreCenti / 100 in steps of 0.01.
ScoreInputs == {Rat(k, 100) : k \in 0..MaxScoreCenti}

CallCategorizeRisk(score) ==
    /\ Idle
    /\ ret' = [status |-> "ok", value |-> CategorizeRisk(score)]
    /\ call' = [op |-> "categorize_risk", score |-> score]
    /\ UNCHANGED <<points, weights, counted, clock, records, service>>

NextRisk ==
    \/ \E score \in ScoreInputs : CallCategorizeRisk(score)
    \/ Return

InitEmpty ==
    /\ points = <<>>
    /\ weights = <<>>
    /\ call = NoCall
    /\ ret = NoRet
    /\ counted = {}
    /\ clock = 0
    /\ records = <<>>
    /\ InitService

SpecRisk == InitEmpty /\ [][NextRisk]_vars

\* What osrm_routes may hand to analyze_routes, apart from route_id (the
\* position in the list): geometry type and coordinates, distance, duration.
OsrmPool ==
    {[gtype |-> "LineString", coords |-> RStraight, distance_meters |-> 1000,
      duration_seconds |-> 720],
     [gtype |-> "LineString", coords |-> RShort, distance_meters |-> 250,
      duration_seconds |-> 180],
     [gtype |-> "LineString", coords |-> RZero, distance_meters |-> 0,
      duration_seconds |-> 0],
     [gtype |-> "LineString", coords |-> ROne, distance_meters |-> 0,
      duration_seconds |-> 0],
     [gtype |-> "Point", coords |-> ROne, distance_meters |-> 0,
      duration_seconds |-> 0]}

\* osrm_routes: route_id is the position in the provider's list, from 0.
OsrmData(raw) ==
    [j \in 1..Len(raw) |->
        [route_id |-> j - 1, gtype |-> raw[j].gtype, coords |-> raw[j].coords,
         distance_meters |-> raw[j].distance_meters,
         duration_seconds |-> raw[j].duration_seconds]]

\* A route the loop of analyze_routes leaves out: a continue, or an exception
\* caught by the loop's except.
Skipped == [skipped |-> TRUE]

\* The body of the loop of analyze_routes for one route: the entry appended,
\* or Skipped.
AnalyzeOne(route, r) ==
    IF route.gtype # "LineString" THEN Skipped
    ELSE IF Len(route.coords) < 2 THEN Skipped
    ELSE LET score_data == ScoreDict(route.coords, r)
         IN  IF "total_weight" \notin DOMAIN score_data
             THEN Skipped   \* KeyError: 'total_weight'
             ELSE [skipped |-> FALSE, entry |->
                  [route_id |-> route.route_id,
                   geometry |->
                       [coordinates |-> route.coords,
                        properties |->
                            [route_id |-> route.route_id,
                             risk_score |-> score_data.score,
                             incidents |-> score_data.incidents,
                             length_km |-> score_data.length_km,
                             total_weight |-> score_data.total_weight,
                             distance_meters |-> route.distance_meters,
                             duration_seconds |-> route.duration_seconds,
                             buffer_meters |-> r,
                             risk_level |-> CategorizeRisk(score_data.score)]],
                   analysis |-> score_data,
                   osrm_data |-> [distance_meters |-> route.distance_meters,
                                  duration_seconds |-> route.duration_seconds]]]

RECURSIVE AnalyzeLoop(_, _)
AnalyzeLoop(data, r) ==
    IF data = <<>> THEN <<>>
    ELSE LET before == AnalyzeLoop(SubSeq(data, 1, Len(data) - 1), r)
             e == AnalyzeOne(data[Len(data)], r)
         IN  IF e.skipped THEN before ELSE Append(before, e.entry)

\* analyzed_routes.sort(key=score): stable.
RECURSIVE InsertByScore(_, _)
InsertByScore(sorted, e) ==
    IF sorted = <<>> THEN <<e>>
    ELSE IF RatLe(sorted[Len(sorted)].analysis.score, e.analysis.score)
         THEN Append(sorted, e)
    ELSE Append(InsertByScore(SubSeq(sorted, 1, Len(sorted) - 1), e),
                sorted[Len(sorted)])

RECURSIVE SortByScore(_)
SortByScore(es) ==
    IF es = <<>> THEN <<>>
    ELSE InsertByScore(SortByScore(SubSeq(es, 1, Len(es) - 1)), es[Len(es)])

AnalyzedRoutes(data, r) == SortByScore(AnalyzeLoop(data, r))

\* analyze_routes when osrm_routes raises: RuntimeError("Route fetching failed").
AnalyzeRoutesFetchFails(r) ==
    /\ Idle
    /\ ret' = [status |-> "raised", exc |-> "RuntimeError"]
    /\ call' = [op |-> "analyze_routes", fetched |-> FALSE, r |-> r]
    /\ UNCHANGED <<points, weights, counted, clock, records, service>>

AnalyzeRoutesReturns(raw, r) ==
    /\ Idle
    /\ ret' = [status |-> "ok", value |-> AnalyzedRoutes(OsrmData(raw), r)]
    /\ call' = [op |-> "analyze_routes", fetched |-> TRUE,
                data |-> OsrmData(raw), r |-> r]
    /\ UNCHANGED <<points, weights, counted, clock, records, service>>

NextBatch ==
    \/ \E r \in Buffers : AnalyzeRoutesFetchFails(r)
    \/ \E raw \in SeqsUpTo(OsrmPool, MaxBatch), r \in Buffers :
          AnalyzeRoutesReturns(raw, r)
    \/ Return

\* Batches are analysed against indexes over two of the sites.
BatchSites == {Pt(500, 0), Pt(1133, 121)}

InitBatch ==
    /\ InitIndex
    /\ \A i \in Indices : points[i] \in BatchSites

SpecBatch == InitBatch /\ [][NextBatch]_vars

---------------------------------------------------------------------------
(* Properties of batch analysis and risk bands.                            *)

Degenerate(route) ==
    route.gtype = "LineString" /\ LineLength(route.coords) = 0

ZeroSentinel ==
    [score |-> Zero, incidents |-> 0, length_km |-> Zero, total_weight |-> Zero]

\* C7 (as claimed): every degenerate route of the batch gets an entry holding
\* the zero sentinel, the other routes get the entries they would get without
\* it, and the call does not fail.
C7_DegenerateEntry ==
    (call.op = "analyze_routes" /\ call.fetched) =>
        /\ ret.status = "ok"
        /\ \A j \in 1..Len(call.data) :
              Degenerate(call.data[j]) =>
                  \E k \in 1..Len(ret.value) :
                      /\ ret.value[k].route_id = call.data[j].route_id
                      /\ ret.value[k].analysis = ZeroSentinel
        /\ \A k \in 1..Len(ret.value) :
              (\A j \in 1..Len(call.data) :
                  call.data[j].route_id = ret.value[k].route_id
                      => ~Degenerate(call.data[j]))
              => \E m \in 1..Len(AnalyzedRoutes(SelectSeq(call.data,
                                    LAMBDA x : ~Degenerate(x)), call.r)) :
                    AnalyzedRoutes(SelectSeq(call.data,
                        LAMBDA x : ~Degenerate(x)), call.r)[m] = ret.value[k]

\* C8: each score has exactly one band: low below 1.0, medium from 1.0 to
\* below 3.0, high from 3.0 to below 6.0, very_high from 6.0 on.
C8_RiskBands ==
    call.op = "categorize_risk" =>
        LET s == call.score
            band == ret.value
        IN  /\ ret.status = "ok"
            /\ band \in {"low", "medium", "high", "very_high"}
            /\ (band = "low") <=> (s.n < s.d)
            /\ (band = "medium") <=> (s.d <= s.n /\ s.n < 3 * s.d)
            /\ (band = "high") <=> (3 * s.d <= s.n /\ s.n < 6 * s.d)
            /\ (band = "very_high") <=> (6 * s.d <= s.n)

\* C8 witness: the three boundary scores fall in the higher band; here 3.0.
C8_Witness ==
    /\ call.op = "categorize_risk"
    /\ call.score = Rat(3, 1)
    /\ ret.value = "high"

---------------------------------------------------------------------------
(* Route comparison: route_analysis.compare_routes and _get_recommendation.*)

MaxRoutes == 3

\* Analysed routes the model draws from, apart from route_id: score,
\* length_km and duration_seconds (whole seconds; 0 is what osrm_routes
\* substitutes for a missing duration).
AnalyzedPool ==
    {[score |-> Rat(1, 2), length_km |-> Rat(1, 1), duration_seconds |-> 600],
     [score |-> Rat(5, 2), length_km |-> Rat(2, 1), duration_seconds |-> 650],
     [score |-> Rat(6, 1), length_km |-> Rat(1, 4), duration_seconds |-> 500],
     [score |-> Rat(2, 1), length_km |-> Rat(1, 1), duration_seconds |-> 600],
     [score |-> Rat(5, 1), length_km |-> Rat(3, 2), duration_seconds |-> 599],
     [score |-> Rat(7, 1), length_km |-> Rat(1, 1), duration_seconds |-> 400],
     [score |-> Rat(3, 1), length_km |-> Rat(1, 2), duration_seconds |-> 0]}

\* The list handed to compare_routes: entries of analyze_routes, identified by
\* route_id (here the position in the list, from 0).
AnalyzedList(raw) ==
    [j \in 1..Len(raw) |->
        [route_id |-> j - 1,
         analysis |-> [score |-> raw[j].score, length_km |-> raw[j].length_km],
         osrm_data |-> [duration_seconds |-> raw[j].duration_seconds]]]

\* min(routes, key=...): the first route whose key is the least.  The keys
\* are given as rationals, one per route.
ArgMin(keys) ==
    CHOOSE j \in 1..Len(keys) :
        /\ \A k \in 1..Len(keys) : RatLe(keys[j], keys[k])
        /\ \A k \in 1..(j - 1) : ~RatLe(keys[k], keys[j])

ArgMax(keys) ==
    CHOOSE j \in 1..Len(keys) : \A k \in 1..Len(keys) : RatLe(keys[k], keys[j])

RECURSIVE SumSeq(_)
SumSeq(keys) ==
    IF keys = <<>> THEN Zero ELSE RatAdd(Head(keys), SumSeq(Tail(keys)))

\* str(route_id) for the ids of the model.
Str(i) == <<"0", "1", "2", "3", "4", "5", "6", "7", "8", "9">>[i + 1]

\* The f-strings of _get_recommendation, as the pieces they concatenate.
TakeSafestMinimalPenalty(id) ==
    <<"Take route ", Str(id), " - safest option with minimal time penalty">>

TakeSafestLowRisk(id) ==
    <<"Take route ", Str(id), " - low risk, worth the extra time">>

ConsiderFastest(id) ==
    <<"Consider route ", Str(id),
      " if time is critical, but be aware of higher crime risk">>

BothRoutes(sid, fid) ==
    <<"Route ", Str(sid), " recommended for safety, route ", Str(fid),
      " for speed">>

GetRecommendationInclusive(safest, fastest) ==
    LET safest_score == safest.analysis.score
        fastest_duration == fastest.osrm_data.duration_seconds
        safest_duration == safest.osrm_data.duration_seconds
        time_penalty == Rat(safest_duration - fastest_duration, fastest_duration)
    IN  IF RatLe(time_penalty, Rat(2, 10))
        THEN TakeSafestMinimalPenalty(safest.route_id)
        ELSE IF RatLt(safest_score, Rat(2, 1))
        THEN TakeSafestLowRisk(safest.route_id)
        ELSE IF RatLt(Rat(5, 1), safest_score)
        THEN ConsiderFastest(fastest.route_id)
        ELSE BothRoutes(safest.route_id, fastest.route_id)

\* _get_recommendation, for fastest_duration # 0.
GetRecommendation(safest, fastest) ==
    LET safest_score == safest.analysis.score
        fastest_duration == fastest.osrm_data.duration_seconds
        safest_duration == safest.osrm_data.duration_seconds
        time_penalty == Rat(safest_duration - fastest_duration, fastest_duration)
    IN  IF RatLt(time_penalty, Rat(2, 10))
        THEN TakeSafestMinimalPenalty(safest.route_id)
        ELSE IF RatLt(safest_score, Rat(2, 1))
        THEN TakeSafestLowRisk(safest.route_id)
        ELSE IF RatLt(Rat(5, 1), safest_score)
        THEN ConsiderFastest(fastest.route_id)
        ELSE BothRoutes(safest.route_id, fastest.route_id)

ScoresOf(routes) == [j \in 1..Len(routes) |-> routes[j].analysis.score]

DurationsOf(routes) ==
    [j \in 1..Len(routes) |-> Rat(routes[j].osrm_data.duration_seconds, 1)]

LengthsOf(routes) == [j \in 1..Len(routes) |-> routes[j].analysis.length_km]

SafestRoute(routes) == routes[ArgMin(ScoresOf(routes))]

FastestRoute(routes) == routes[ArgMin(DurationsOf(routes))]

ShortestRoute(routes) == routes[ArgMin(LengthsOf(routes))]

\* compare_routes without the guard on the empty list: min() of an empty
\* list raises ValueError.
CompareRoutesEmptyUnguarded ==
    /\ Idle
    /\ ret' = [status |-> "raised", exc |-> "ValueError"]
    /\ call' = [op |-> "compare_routes", routes |-> <<>>]
    /\ UNCHANGED <<points, weights, counted, clock, records, service>>

\* compare_routes on the empty list.
CompareRoutesEmpty ==
    /\ Idle
    /\ ret' = [status |-> "ok", value |-> [error |-> "No routes to compare"]]
    /\ call' = [op |-> "compare_routes", routes |-> <<>>]
    /\ UNCHANGED <<points, weights, counted, clock, records, service>>

\* compare_routes when the fastest route's duration is 0: the division in
\* _get_recommendation raises ZeroDivisionError.
CompareRoutesRaises(routes) ==
    /\ Idle
    /\ routes # <<>>
    /\ FastestRoute(routes).osrm_data.duration_seconds = 0
    /\ ret' = [status |-> "raised", exc |-> "ZeroDivisionError"]
    /\ call' = [op |-> "compare_routes", routes |-> routes]
    /\ UNCHANGED <<points, weights, counted, clock, records, service>>

\* The dict compare_routes returns for a non-empty list.
Comparison(routes) ==
    LET scores == ScoresOf(routes)
        durations == DurationsOf(routes)
    IN  [total_routes |-> Len(routes),
         safest_route_id |-> SafestRoute(routes).route_id,
         fastest_route_id |-> FastestRoute(routes).route_id,
         shortest_route_id |-> ShortestRoute(routes).route_id,
         risk_score_range |->
             [min |-> scores[ArgMin(scores)],
              max |-> scores[ArgMax(scores)],
              avg |-> RatDiv(SumSeq(scores), Rat(Len(scores), 1))],
         duration_range |->
             [min_seconds |-> durations[ArgMin(durations)],
              max_seconds |-> durations[ArgMax(durations)],
              avg_seconds |-> RatDiv(SumSeq(durations),
                                     Rat(Len(durations), 1))],
         recommendation |->
             GetRecommendation(SafestRoute(routes), FastestRoute(routes))]

CompareRoutesReturns(routes) ==
    /\ Idle
    /\ routes # <<>>
    /\ FastestRoute(routes).osrm_data.duration_seconds # 0
    /\ ret' = [status |-> "ok", value |-> Comparison(routes)]
    /\ call' = [op |-> "compare_routes", routes |-> routes]
    /\ UNCHANGED <<points, weights, counted, clock, records, service>>

CompareRoutes(routes) ==
    \/ routes = <<>> /\ CompareRoutesEmpty
    \/ CompareRoutesRaises(routes)
    \/ CompareRoutesReturns(routes)

NextCompare ==
    \/ \E raw \in SeqsUpTo(AnalyzedPool, MaxRoutes) : CompareRoutes(AnalyzedList(raw))
    \/ Return

SpecCompare == InitEmpty /\ [][NextCompare]_vars

\* Routes for comparing the results of two calls.
PairPool ==
    {[score |-> Rat(6, 1), length_km |-> Rat(1, 1), duration_seconds |-> 500],
     [score |-> Rat(6, 1), length_km |-> Rat(1, 1), duration_seconds |-> 460],
     [score |-> Rat(7, 1), length_km |-> Rat(1, 1), duration_seconds |-> 400]}

\* Two calls of compare_routes, one after the other, on non-empty lists of
\* the same length whose durations are all positive: both return.
CompareRoutesTwice(routes, routes2) ==
    /\ Idle
    /\ routes # <<>>
    /\ Len(routes2) = Len(routes)
    /\ ret' = [status |-> "ok", value |-> Comparison(routes),
               value2 |-> Comparison(routes2)]
    /\ call' = [op |-> "compare_routes_twice", routes |-> routes,
                routes2 |-> routes2]
    /\ UNCHANGED <<points, weights, counted, clock, records, service>>

NextComparePair ==
    \/ /\ Idle
       /\ \E raw, raw2 \in SeqsUpTo(PairPool, MaxRoutes) :
             CompareRoutesTwice(AnalyzedList(raw), AnalyzedList(raw2))
    \/ Return

SpecComparePair == InitEmpty /\ [][NextComparePair]_vars

---------------------------------------------------------------------------
(* Properties of the route comparison.                                     *)

Compared == call.op = "compare_routes" /\ call.routes # <<>>

MinScoreAt(routes, j) ==
    \A k \in 1..Len(routes) :
        RatLe(routes[j].analysis.score, routes[k].analysis.score)

MinDurationAt(routes, j) ==
    \A k \in 1..Len(routes) :
        routes[j].osrm_data.duration_seconds <= routes[k].osrm_data.duration_seconds

MinLengthAt(routes, j) ==
    \A k \in 1..Len(routes) :
        RatLe(routes[j].analysis.length_km, routes[k].analysis.length_km)

\* The rule that decides between a safest route s and a fastest route f, by
\* integer arithmetic: (s.dur - f.dur) / f.dur < 0.2 iff
\* 5 * (s.dur - f.dur) < f.dur, for f.dur > 0.
RuleFor(s, f) ==
    LET sd == s.osrm_data.duration_seconds
        fd == f.osrm_data.duration_seconds
        sc == s.analysis.score
    IN  IF 5 * (sd - fd) < fd THEN 1
        ELSE IF sc.n < 2 * sc.d THEN 2
        ELSE IF sc.n > 5 * sc.d THEN 3
        ELSE 4

\* What a recommendation says: which rule's sentence it is and the route
\* ids it names.
Says(rec, rule, s, f) ==
    \/ rule = 1 /\ rec = TakeSafestMinimalPenalty(s.route_id)
    \/ rule = 2 /\ rec = TakeSafestLowRisk(s.route_id)
    \/ rule = 3 /\ rec = ConsiderFastest(f.route_id)
    \/ rule = 4 /\ rec = BothRoutes(s.route_id, f.route_id)

ExampleRoutes ==
    /\ Len(call.routes) = 3
    /\ ScoresOf(call.routes) = <<Rat(1, 2), Rat(5, 2), Rat(6, 1)>>
    /\ DurationsOf(call.routes) = <<Rat(600, 1), Rat(650, 1), Rat(500, 1)>>

\* C9: a recommendation that compare_routes returns is the one of the first
\* matching rule, in the order (1) time penalty < 0.2: the safest route,
\* (2) safest score < 2.0: the safest route, (3) safest score > 5.0: the
\* fastest route with the risk caveat, (4) otherwise both; for scores
\* [0.5, 2.5, 6.0] with durations [600, 650, 500] the penalty is exactly 0.2,
\* rule 1 does not fire and rule 2 recommends the route with score 0.5.
C9_FirstMatchingRule ==
    (Compared /\ ret.status = "ok") =>
        /\ \E j, k \in 1..Len(call.routes) :
              /\ MinScoreAt(call.routes, j)
              /\ MinDurationAt(call.routes, k)
              /\ Says(ret.value.recommendation,
                      RuleFor(call.routes[j], call.routes[k]),
                      call.routes[j], call.routes[k])
        /\ ExampleRoutes =>
              ret.value.recommendation = TakeSafestLowRisk(call.routes[1].route_id)

C9_Witness ==
    /\ Compared
    /\ ExampleRoutes
    /\ ret.status = "ok"
    /\ ret.value.recommendation = TakeSafestLowRisk(0)

\* C10: for every non-empty list, compare_routes reports as safest, fastest
\* and shortest a route of least score, least duration_seconds and least
\* length_km, and the minimum, maximum and average of the scores and of the
\* durations over the whole list.
C10_ReportsExtremes ==
    Compared =>
        /\ ret.status = "ok"
        /\ LET routes == call.routes
               n == Len(routes)
               v == ret.value
           IN  /\ \E j \in 1..n : /\ routes[j].route_id = v.safest_route_id
                                  /\ MinScoreAt(routes, j)
               /\ \E j \in 1..n : /\ routes[j].route_id = v.fastest_route_id
                                  /\ MinDurationAt(routes, j)
               /\ \E j \in 1..n : /\ routes[j].route_id = v.shortest_route_id
                                  /\ MinLengthAt(routes, j)
               /\ \E j \in 1..n : /\ v.risk_score_range.min = routes[j].analysis.score
                                  /\ MinScoreAt(routes, j)
               /\ \E j \in 1..n :
                     /\ v.risk_score_range.max = routes[j].analysis.score
                     /\ \A k \in 1..n : RatLe(routes[k].analysis.score,
                                              routes[j].analysis.score)
               /\ \E j \in 1..n :
                     /\ v.duration_range.min_seconds = DurationsOf(routes)[j]
                     /\ MinDurationAt(routes, j)
               /\ \E j \in 1..n :
                     /\ v.duration_range.max_seconds = DurationsOf(routes)[j]
                     /\ \A k \in 1..n : RatLe(DurationsOf(routes)[k],
                                              DurationsOf(routes)[j])
               /\ v.risk_score_range.avg.n * n * SumSeq(ScoresOf(routes)).d
                    = SumSeq(ScoresOf(routes)).n * v.risk_score_range.avg.d
               /\ v.duration_range.avg_seconds.n * n
                    = SumSeq(DurationsOf(routes)).n * v.duration_range.avg_seconds.d

\* C11: compare_routes on the empty list does not raise and returns the
\* "No routes to compare" result, which no result for a non-empty list can
\* be taken for: it alone has the key 'error'.
C11_EmptyDistinguished ==
    call.op = "compare_routes" =>
        /\ call.routes = <<>> =>
              /\ ret.status = "ok"
              /\ DOMAIN ret.value = {"error"}
              /\ ret.value.error = "No routes to compare"
        /\ (call.routes # <<>> /\ ret.status = "ok") =>
              "error" \notin DOMAIN ret.value

C11_Witness ==
    /\ call.op = "compare_routes"
    /\ call.routes = <<>>
    /\ ret.status = "ok"
    /\ ret.value.error = "No routes to compare"

\* What a comparison carries apart from the recommendation sentence.
StructuredFields(v) == [k \in DOMAIN v \ {"recommendation"} |-> v[k]]

\* C12: the recommendation carries the identifiers of the routes it is about
\* as fields of the result, not only in its sentence; so two comparisons
\* that agree on everything but the sentence recommend the same routes, that
\* is, have the same sentence.
C12_RecommendationStructured ==
    call.op = "compare_routes_twice" =>
        (StructuredFields(ret.value) = StructuredFields(ret.value2)
            => ret.value.recommendation = ret.value2.recommendation)

---------------------------------------------------------------------------
(* Incident weights: spatial_index.SEVERITY and crime_weight.              *)

MaxAge == 35

MaxClock == 2

RatMul(a, b) == Rat(a.n * b.n, a.d * b.d)

\* Crime types: the five listed ones, a listed one in another case, and an
\* unlisted one.
CrimeTypes ==
    {"Assault", "Robbery", "Break and Enter", "Theft", "Auto Theft",
     "assault", "Unknown"}

SeverityIgnoreCase(crime_type) ==
    CASE crime_type \in {"Assault", "assault"} -> Rat(10, 10)
      [] crime_type = "Robbery" -> Rat(9, 10)
      [] crime_type = "Break and Enter" -> Rat(7, 10)
      [] crime_type = "Theft" -> Rat(6, 10)
      [] crime_type = "Auto Theft" -> Rat(6, 10)
      [] OTHER -> Rat(5, 10)

\* SEVERITY.get(crime_type, 0.5)
Severity(crime_type) ==
    CASE crime_type = "Assault" -> Rat(10, 10)
      [] crime_type = "Robbery" -> Rat(9, 10)
      [] crime_type = "Break and Enter" -> Rat(7, 10)
      [] crime_type = "Theft" -> Rat(6, 10)
      [] crime_type = "Auto Theft" -> Rat(6, 10)
      [] OTHER -> Rat(5, 10)

\* (current_date - date).days: whole days, rounded down; negative for a date
\* in the future.  Both times are in half days.
AgeDays(now, date) == (now - date) \div 2

\* The divisor 1 + age_days / 30.
RecencyDivisor(age_days) == RatAdd(Rat(1, 1), Rat(age_days, 30))

RecencyGrowing(age_days) ==
    RatSub(Rat(1, 1), RatDiv(Rat(1, 1), RecencyDivisor(age_days)))

\* 1 / (1 + age_days / 30), for a divisor that is not zero.
Recency(age_days) == RatDiv(Rat(1, 1), RecencyDivisor(age_days))

\* np.clip(x, lo, hi)
Clip(x, lo, hi) == IF RatLt(x, lo) THEN lo ELSE IF RatLt(hi, x) THEN hi ELSE x

CrimeWeightUnclippedSum(crime_type, age_days) ==
    RatAdd(Severity(crime_type), Recency(age_days))

\* crime_weight from age_days on (lines 70-73).
CrimeWeight(crime_type, age_days) ==
    Clip(RatAdd(RatMul(Rat(4, 10), Severity(crime_type)),
                RatMul(Rat(6, 10), Recency(age_days))),
         Rat(2, 10), Rat(1, 1))

\* The outcome of crime_weight(crime_type, date) run at wall-clock time now.
CrimeWeightAt(crime_type, date, now) ==
    LET age_days == AgeDays(now, date)
    IN  IF RecencyDivisor(age_days) = Zero
        THEN [status |-> "raised", exc |-> "ZeroDivisionError"]
        ELSE [status |-> "ok", value |-> CrimeWeight(crime_type, age_days)]

\* Occurrence dates, in half days: up to MaxAge days before time 0 and up to
\* 32 days after it, and one year before.
Dates == ((-2 * MaxAge)..64) \cup {-730, -729}

PastDates == {d \in Dates : d <= 0}

\* crime_weight(crime_type, date)
CrimeWeightCall(crime_type, date) ==
    /\ ret' = CrimeWeightAt(crime_type, date, clock)
    /\ call' = [op |-> "crime_weight", crime_type |-> crime_type,
                date |-> date, age_days |-> AgeDays(clock, date)]
    /\ UNCHANGED <<points, weights, counted, clock, records, service>>

\* crime_weight on two incidents of one type, the second no younger than the
\* first, at the same time.
CrimeWeightPair(crime_type, date, date2) ==
    /\ date2 <= date
    /\ ret' = [first |-> CrimeWeightAt(crime_type, date, clock),
               second |-> CrimeWeightAt(crime_type, date2, clock)]
    /\ call' = [op |-> "crime_weight_pair", crime_type |-> crime_type,
                age_days |-> AgeDays(clock, date),
                age_days2 |-> AgeDays(clock, date2)]
    /\ UNCHANGED <<points, weights, counted, clock, records, service>>

\* crime_weight on the same incident twice, the second time `wait` half days
\* after the first.
CrimeWeightAgain(crime_type, date, wait) ==
    /\ clock + wait <= MaxClock
    /\ ret' = [first |-> CrimeWeightAt(crime_type, date, clock),
               second |-> CrimeWeightAt(crime_type, date, clock + wait)]
    /\ call' = [op |-> "crime_weight_again", crime_type |-> crime_type,
                date |-> date, wait |-> wait]
    /\ clock' = clock + wait
    /\ UNCHANGED <<points, weights, counted, records, service>>

\* Time passes.
Tick ==
    /\ Idle
    /\ clock < MaxClock
    /\ clock' = clock + 1
    /\ UNCHANGED <<points, weights, call, ret, counted, records, service>>

NextWeight ==
    \/ /\ Idle
       /\ \E crime_type \in CrimeTypes, date \in Dates :
             CrimeWeightCall(crime_type, date)
    \/ /\ Idle
       /\ \E crime_type \in CrimeTypes, date, date2 \in PastDates :
             CrimeWeightPair(crime_type, date, date2)
    \/ /\ Idle
       /\ \E crime_type \in CrimeTypes, date \in Dates, wait \in 0..MaxClock :
             CrimeWeightAgain(crime_type, date, wait)
    \/ Tick
    \/ Return

SpecWeight == InitEmpty /\ [][NextWeight]_vars

---------------------------------------------------------------------------
(* Properties of the incident weights.                                     *)

InUnitBand(w) == RatLe(Rat(2, 10), w) /\ RatLe(w, Rat(1, 1))

\* C13: for every crime type, listed or not, and every age_days >= 0,
\* crime_weight returns a weight in [0.2, 1.0].
C13_WeightInBand ==
    (call.op = "crime_weight" /\ call.age_days >= 0) =>
        /\ ret.status = "ok"
        /\ InUnitBand(ret.value)

C13_Witness ==
    /\ call.op = "crime_weight"
    /\ call.crime_type = "Unknown"
    /\ call.age_days = 30
    /\ ret.status = "ok"
    /\ ret.value = Rat(1, 2)

\* C14: for every incident, also one dated in the future (age_days < 0, and
\* age_days = -30 in particular), crime_weight does not raise and returns a
\* weight in [0.2, 1.0].
C14_WeightInBandAlways ==
    call.op = "crime_weight" =>
        /\ ret.status = "ok"
        /\ InUnitBand(ret.value)

\* C15: for one crime type and ages 0 <= a1 <= a2, the weight at a2 is at
\* most the weight at a1.
C15_WeightNonIncreasing ==
    (/\ call.op = "crime_weight_pair"
     /\ 0 <= call.age_days
     /\ call.age_days <= call.age_days2) =>
        /\ ret.first.status = "ok"
        /\ ret.second.status = "ok"
        /\ RatLe(ret.second.value, ret.first.value)

C15_Witness ==
    /\ call.op = "crime_weight_pair"
    /\ call.crime_type = "Theft"
    /\ call.age_days = 0
    /\ call.age_days2 = 30
    /\ ret.first.status = "ok"
    /\ ret.second.status = "ok"
    /\ RatLt(ret.second.value, ret.first.value)

\* The severities as claimed, in tenths, by exact match of the type.
ClaimedSeverityTenths(crime_type) ==
    IF crime_type = "Assault" THEN 10
    ELSE IF crime_type = "Robbery" THEN 9
    ELSE IF crime_type = "Break and Enter" THEN 7
    ELSE IF crime_type \in {"Theft", "Auto Theft"} THEN 6
    ELSE 5

\* 0.4 * severity + 0.6 / (1 + age_days / 30) over one denominator:
\* (4 * tenths * (30 + age_days) + 1800) / (100 * (30 + age_days)).
ClaimedRaw(crime_type, age_days) ==
    Rat(4 * ClaimedSeverityTenths(crime_type) * (30 + age_days) + 1800,
        100 * (30 + age_days))

ClaimedWeight(crime_type, age_days) ==
    LET raw == ClaimedRaw(crime_type, age_days)
    IN  IF raw.n * 5 < raw.d THEN Rat(1, 5)
        ELSE IF raw.n > raw.d THEN Rat(1, 1)
        ELSE raw

\* w is t / 10000 to four decimal places.
Near(w, t) == 2 * Abs(w.n * 10000 - t * w.d) <= w.d

C17_WeightDeterministic ==
    call.op = "crime_weight_again" => ret.first = ret.second

---------------------------------------------------------------------------
(* Building the index: spatial_index.load_index.                           *)

MaxRows == 3

\* Rows of the CSV.  lng and lat are in the model's geographic units, date in
\* half days; `missing` names the one cell of the row that is empty, if any.
RowPool ==
    {[lng |-> 0, lat |-> 0, crime_type |-> "Assault", date |-> 0,
      missing |-> "none"],
     [lng |-> 0, lat |-> 180, crime_type |-> "Theft", date |-> -60,
      missing |-> "none"],
     [lng |-> 633, lat |-> 121, crime_type |-> "Robbery", date |-> -730,
      missing |-> "none"],
     [lng |-> 633, lat |-> -121, crime_type |-> "Unknown", date |-> 0,
      missing |-> "crime_type"],
     [lng |-> 0, lat |-> 0, crime_type |-> "Assault", date |-> 0,
      missing |-> "lat"],
     [lng |-> 680, lat |-> 180, crime_type |-> "Theft", date |-> 0,
      missing |-> "date"],
     [lng |-> 680, lat |-> 180, crime_type |-> "Auto Theft", date |-> 60,
      missing |-> "none"]}

\* to_utm(lon, lat): the projection, in the model a shift of the easting.
ToUtm(lng, lat) == Pt(lng + 500, lat)

\* df.dropna(subset=['lat', 'lng', 'date']) and reset_index: the rows with
\* these three cells present, in their order, renumbered from the first.
Complete(row) == row.missing \notin {"lat", "lng", "date"}

DropNa(rows) == SelectSeq(rows, Complete)

\* Some row's weight cannot be computed at time now.
WeightRaises(df, now) ==
    \E i \in DOMAIN df :
        CrimeWeightAt(df[i].crime_type, df[i].date, now).status = "raised"

BuiltWeightsReversed(df, now) ==
    [i \in DOMAIN df |->
        CrimeWeightAt(df[Len(df) + 1 - i].crime_type,
                      df[Len(df) + 1 - i].date, now).value]

\* df['weight'] = df.apply(crime_weight ...) and df['weight'].tolist()
BuiltWeights(df, now) ==
    [i \in DOMAIN df |-> CrimeWeightAt(df[i].crime_type, df[i].date, now).value]

\* utm_points: one projected point per row of df, in row order.
BuiltPoints(df) == [i \in DOMAIN df |-> ToUtm(df[i].lng, df[i].lat)]

\* The dict load_index returns.  The tree holds the points it was built
\* from; the indices it answers with are their positions.
BuiltIndex(df, now) ==
    [df |-> [i \in DOMAIN df |->
                [lng |-> df[i].lng, lat |-> df[i].lat,
                 crime_type |-> df[i].crime_type, date |-> df[i].date,
                 weight |-> BuiltWeights(df, now)[i],
                 pt |-> BuiltPoints(df)[i]]],
     tree |-> BuiltPoints(df),
     points |-> BuiltPoints(df),
     weights |-> BuiltWeights(df, now)]

\* A required column is missing: ValueError (lines 97-100).
LoadIndexMissingColumns(rows) ==
    /\ ret' = [status |-> "raised", exc |-> "ValueError"]
    /\ call' = [op |-> "load_index", columns_ok |-> FALSE, rows |-> rows]
    /\ UNCHANGED <<points, weights, counted, clock, records, service>>

LoadIndexEmptyReturns(rows) ==
    /\ DropNa(rows) = <<>>
    /\ ret' = [status |-> "ok", value |-> BuiltIndex(<<>>, clock)]
    /\ call' = [op |-> "load_index", columns_ok |-> TRUE, rows |-> rows]
    /\ UNCHANGED <<points, weights, counted, clock, records, service>>

\* No row is left after dropna: DataFrame.apply on a frame without rows
\* gives back a frame, not a column, and assigning it to df['weight'] raises
\* ValueError (line 116).
LoadIndexEmpty(rows) ==
    /\ DropNa(rows) = <<>>
    /\ ret' = [status |-> "raised", exc |-> "ValueError"]
    /\ call' = [op |-> "load_index", columns_ok |-> TRUE, rows |-> rows]
    /\ UNCHANGED <<points, weights, counted, clock, records, service>>

\* crime_weight raises for some row: the exception leaves load_index.
LoadIndexWeightRaises(rows) ==
    /\ DropNa(rows) # <<>>
    /\ WeightRaises(DropNa(rows), clock)
    /\ ret' = [status |-> "raised", exc |-> "ZeroDivisionError"]
    /\ call' = [op |-> "load_index", columns_ok |-> TRUE, rows |-> rows]
    /\ UNCHANGED <<points, weights, counted, clock, records, service>>

LoadIndexReturns(rows) ==
    /\ DropNa(rows) # <<>>
    /\ ~WeightRaises(DropNa(rows), clock)
    /\ ret' = [status |-> "ok", value |-> BuiltIndex(DropNa(rows), clock)]
    /\ call' = [op |-> "load_index", columns_ok |-> TRUE, rows |-> rows]
    /\ UNCHANGED <<points, weights, counted, clock, records, service>>

\* load_index(csv_path) on a file with the given rows.
LoadIndex(columns_ok, rows) ==
    \/ ~columns_ok /\ LoadIndexMissingColumns(rows)
    \/ columns_ok /\ LoadIndexEmpty(rows)
    \/ columns_ok /\ LoadIndexWeightRaises(rows)
    \/ columns_ok /\ LoadIndexReturns(rows)

NextBuild ==
    \/ /\ Idle
       /\ \E columns_ok \in BOOLEAN, rows \in SeqsUpTo(RowPool, MaxRows) :
             LoadIndex(columns_ok, rows)
    \/ Tick
    \/ Return

SpecBuild == InitEmpty /\ [][NextBuild]_vars

---------------------------------------------------------------------------
(* Properties of index building.                                           *)

\* C18: building an index over zero points succeeds and gives an index
\* without points, on which the radius, nearest and region queries answer
\* with an empty result.
C18_EmptyIndexBuilt ==
    (call.op = "load_index" /\ call.columns_ok /\ DropNa(call.rows) = <<>>) =>
        /\ ret.status = "ok"
        /\ ret.value.points = <<>>
        /\ ret.value.weights = <<>>

C20_Aligned ==
    (call.op = "load_index" /\ ret.status = "ok") =>
        LET index == ret.value
            kept == DropNa(call.rows)
        IN  /\ DOMAIN index.df = DOMAIN index.points
            /\ DOMAIN index.df = DOMAIN index.weights
            /\ DOMAIN index.tree = DOMAIN index.df
            /\ Len(index.df) = Len(kept)
            /\ \A i \in DOMAIN index.df :
                  /\ index.df[i].lng = kept[i].lng
                  /\ index.df[i].lat = kept[i].lat
                  /\ index.df[i].crime_type = kept[i].crime_type
                  /\ index.df[i].date = kept[i].date
                  /\ index.points[i] = Pt(kept[i].lng + 500, kept[i].lat)
                  /\ index.tree[i] = index.points[i]
                  /\ index.weights[i] = index.df[i].weight
                  /\ index.weights[i] =
                        ClaimedWeight(kept[i].crime_type,
                                      AgeDays(clock, kept[i].date))

C20_Witness ==
    /\ call.op = "load_index"
    /\ ret.status = "ok"
    /\ Len(call.rows) = 3
    /\ Len(ret.value.points) = 2
    /\ ~Complete(call.rows[1])
    /\ ret.value.weights[1] # ret.value.weights[2]
    /\ ret.value.points[1] # ret.value.points[2]

---------------------------------------------------------------------------
(* Further properties of the route comparison.                             *)

\* C30: compare_routes raises for no non-empty list of analysed routes and
\* always returns a recommendation, also when the fastest route's
\* duration_seconds is 0.
C30_CompareNeverRaises ==
    Compared =>
        /\ ret.status = "ok"
        /\ "recommendation" \in DOMAIN ret.value

---------------------------------------------------------------------------
(* Filtering records: spatial_data_loader.filter_df and filter_df_spatial. *)

\* Rows of the indexed data the filters are tried on.
FilterPool ==
    {[lng |-> 0, lat |-> 0, crime_type |-> "Assault", date |-> 0,
      missing |-> "none"],
     [lng |-> 0, lat |-> 180, crime_type |-> "Theft", date |-> -60,
      missing |-> "none"],
     [lng |-> 633, lat |-> 121, crime_type |-> "Auto Theft", date |-> -20,
      missing |-> "none"],
     [lng |-> 633, lat |-> -121, crime_type |-> "Theft", date |-> -730,
      missing |-> "none"]}

\* An argument left out (None), and the values the model passes.
NoArg == [given |-> FALSE]

Given(v) == [given |-> TRUE, v |-> v]

StartArgs == {NoArg, Given(-100)}

EndArgs == {NoArg, Given(-10)}

TypeArgs == {NoArg, Given("Theft"), Given("assault")}

BboxArgs ==
    {NoArg,
     Given([min_lng |-> -10, min_lat |-> -10, max_lng |-> 10, max_lat |-> 200]),
     Given([min_lng |-> 600, min_lat |-> -200, max_lng |-> 700, max_lat |-> 200]),
     Given([min_lng |-> -10, min_lat |-> 100, max_lng |-> 700, max_lat |-> 200])}

\* Series.str.contains(crime_type, case=False, na=False) on the values and
\* patterns of the model: the pattern occurs in the value, letter case aside.
StrContains(value, pattern) ==
    \/ pattern = "Theft" /\ value \in {"Theft", "Auto Theft"}
    \/ pattern = "assault" /\ value = "Assault"

\* The temporal and crime-type filters, applied to the frame df, which is
\* given as the positions in the index of the rows it still holds, in order.
KeepRow(i, start, end, crime_type) ==
    /\ start.given => records[i].date >= start.v
    /\ end.given => records[i].date <= end.v
    /\ crime_type.given => StrContains(records[i].crime_type, crime_type.v)

Filtered(start, end, crime_type) ==
    SelectSeq([i \in 1..Len(records) |-> i],
              LAMBDA i : KeepRow(i, start, end, crime_type))

\* tree.query(bbox_geom): the positions, in the whole index, of the points
\* in the box spanned by the projected corners.
BboxMatches(b) ==
    LET lo == ToUtm(b.min_lng, b.min_lat)
        hi == ToUtm(b.max_lng, b.max_lat)
    IN  {i \in 1..Len(points) : InBox(points[i], lo.x, lo.y, hi.x, hi.y)}

\* df.iloc[possible_matches_idx] raises IndexError when a position lies
\* beyond the end of df.
IlocRaises(df, matches) == \E m \in matches : m > Len(df)

\* df.iloc[possible_matches_idx]: the rows of df AT these positions.
Iloc(df, matches) == {df[m] : m \in matches}

\* The fallback of filter_df: the same filters by plain comparisons.
BasicFilter(start, end, crime_type, bbox) ==
    {i \in 1..Len(records) :
        /\ KeepRow(i, start, end, crime_type)
        /\ bbox.given =>
              /\ records[i].lat >= bbox.v.min_lat
              /\ records[i].lat <= bbox.v.max_lat
              /\ records[i].lng >= bbox.v.min_lng
              /\ records[i].lng <= bbox.v.max_lng}

\* filter_df: filter_df_spatial on the frame df left by the temporal and
\* crime-type filters, and the basic filtering when that raises.  The result
\* is given as the set of index positions of the rows returned.
FilterOutcome(df, start, end, crime_type, bbox) ==
    IF ~bbox.given
    THEN [status |-> "ok", via |-> "spatial",
          rows |-> {df[k] : k \in 1..Len(df)}]
    ELSE IF IlocRaises(df, BboxMatches(bbox.v))
    THEN [status |-> "ok", via |-> "fallback",
          rows |-> BasicFilter(start, end, crime_type, bbox)]
    ELSE [status |-> "ok", via |-> "spatial",
          rows |-> Iloc(df, BboxMatches(bbox.v))]

FilterDf(start, end, crime_type, bbox) ==
    /\ ret' = FilterOutcome(Filtered(start, end, crime_type),
                            start, end, crime_type, bbox)
    /\ call' = [op |-> "filter_df", start |-> start, end |-> end,
                crime_type |-> crime_type, bbox |-> bbox]
    /\ UNCHANGED <<points, weights, counted, clock, records, service>>

NextFilter ==
    \/ /\ Idle
       /\ \E start \in StartArgs, end \in EndArgs, crime_type \in TypeArgs,
             bbox \in BboxArgs :
             FilterDf(start, end, crime_type, bbox)
    \/ Return

\* An index built by load_index at time 0 from rows of the pool.
InitFilter ==
    /\ \E rows \in SeqsUpTo(FilterPool, MaxRows) \ {<<>>} :
          /\ records = BuiltIndex(rows, 0).df
          /\ points = BuiltIndex(rows, 0).points
          /\ weights = BuiltIndex(rows, 0).weights
    /\ call = NoCall
    /\ ret = NoRet
    /\ counted = {}
    /\ clock = 0
    /\ InitService

SpecFilter == InitFilter /\ [][NextFilter]_vars

---------------------------------------------------------------------------
(* Properties of the record filter.                                        *)

\* The records that satisfy every filter supplied.
Satisfying(start, end, crime_type, bbox) ==
    {i \in 1..Len(records) :
        /\ start.given => records[i].date >= start.v
        /\ end.given => records[i].date <= end.v
        /\ crime_type.given => StrContains(records[i].crime_type, crime_type.v)
        /\ bbox.given =>
              /\ bbox.v.min_lng <= records[i].lng
              /\ records[i].lng <= bbox.v.max_lng
              /\ bbox.v.min_lat <= records[i].lat
              /\ records[i].lat <= bbox.v.max_lat}

\* C24: filter_df returns exactly the records that satisfy every supplied
\* filter, also when a bbox comes with a date or crime-type filter; so the
\* result with a bbox lies within the result without it.
C24_FilterExact ==
    call.op = "filter_df" =>
        /\ ret.status = "ok"
        /\ ret.rows = Satisfying(call.start, call.end, call.crime_type, call.bbox)
        /\ ret.rows \subseteq
              Satisfying(call.start, call.end, call.crime_type, NoArg)

---------------------------------------------------------------------------
(* Concurrent readers of one index instance: the endpoints run in the      *)
(* server's thread pool, so query_radius, query_nearest, filter_df and     *)
(* score_route calls interleave statement by statement.                    *)

\* The calls the readers make.
ReaderCalls ==
    {[op |-> "query_radius", c |-> Pt(500, 0), r |-> 180, limit |-> 2],
     [op |-> "query_radius", c |-> Pt(1000, 0), r |-> 700,
      limit |-> DefaultLimit],
     [op |-> "query_nearest", c |-> Pt(500, 0), count |-> 1],
     [op |-> "filter_df", start |-> NoArg, end |-> NoArg,
      crime_type |-> Given("Theft"),
      bbox |-> Given([min_lng |-> -10, min_lat |-> -10, max_lng |-> 10,
                      max_lat |-> 200])],
     [op |-> "score_route", coords |-> RStraight, r |-> DefaultBuffer],
     [op |-> "score_route", coords |-> ROne, r |-> DefaultBuffer]}

NoTally == [total_weight |-> Zero, incident_count |-> 0, counted |-> {}]

\* A thread of the pool with no request: `frame` is the call's local frame
\* or candidate list, `acc` the running totals of the scoring loop.
ReaderIdle ==
    [pc |-> "idle", q |-> NoCall, frame |-> <<>>, acc |-> NoTally,
     result |-> NoRet]

\* matches_df = spatial_index['df'].iloc[possible_matches_idx].copy(): the
\* call's own copy of the candidate rows, each with its position.
MatchesDf(c, r) ==
    LET idx == SetToSeq(RadiusCandidates(c, r))
    IN  [j \in 1..Len(idx) |-> [idx |-> idx[j], row |-> records[idx[j]]]]

\* What the call holds after its first statements.
FirstFrame(q) ==
    IF q.op = "query_radius" THEN MatchesDf(q.c, q.r)
    ELSE IF q.op = "filter_df" THEN Filtered(q.start, q.end, q.crime_type)
    ELSE IF q.op = "score_route" /\ Len(q.coords) >= 2
                                 /\ LineLength(q.coords) # 0
    THEN SetToSeq(RouteCandidates(q.coords, q.r))
    ELSE <<>>

ReaderBegin(t, q) ==
    /\ threads[t].pc = "idle"
    /\ threads' = [threads EXCEPT ![t] =
                      [pc |-> "running", q |-> q, frame |-> FirstFrame(q),
                       acc |-> NoTally, result |-> NoRet]]
    /\ UNCHANGED <<points, weights, call, ret, counted, clock, records,
                   SPATIAL_INDEX, DATA_PATH, DF, tmpfile, builds>>

\* A row with the column distance_meters set.
WithDistance(row, d2) ==
    [f \in DOMAIN row \cup {"distance_meters"} |->
        IF f = "distance_meters" THEN d2 ELSE row[f]]

SharedAfterDistancesNoCopy(df, frame, c) ==
    [i \in DOMAIN df |->
        IF \E j \in DOMAIN frame : frame[j].idx = i
        THEN WithDistance(df[i], Dist2(c, points[i]))
        ELSE df[i]]

\* spatial_index['df'] after matches_df['distance_meters'] = distances:
\* matches_df is a copy, so the assignment does not reach the index.
SharedAfterDistances(df, frame, c) == df

\* query_radius: the distance of every candidate, read from points, is
\* written into the call's own frame.
ReaderDistances(t) ==
    /\ threads[t].pc = "running"
    /\ threads[t].q.op = "query_radius"
    /\ threads[t].frame # <<>>
    /\ threads' = [threads EXCEPT
          ![t].pc = "measured",
          ![t].frame =
              [j \in DOMAIN @ |->
                  [idx |-> @[j].idx,
                   d2 |-> Dist2(threads[t].q.c, points[@[j].idx]),
                   row |-> WithDistance(@[j].row,
                              Dist2(threads[t].q.c, points[@[j].idx]))]]]
    /\ records' = SharedAfterDistances(records, threads[t].frame, threads[t].q.c)
    /\ UNCHANGED <<points, weights, call, ret, counted, clock,
                   SPATIAL_INDEX, DATA_PATH, DF, tmpfile, builds>>

\* score_route: one turn of the loop over the candidate indices.
ReaderScoreStep(t) ==
    /\ threads[t].pc = "running"
    /\ threads[t].q.op = "score_route"
    /\ threads[t].frame # <<>>
    /\ threads' = [threads EXCEPT
          ![t].frame = Tail(@),
          ![t].acc = ScoreLoop(<<Head(threads[t].frame)>>, threads[t].q.coords,
                               threads[t].q.r, @)]
    /\ UNCHANGED <<points, weights, call, ret, counted, clock, records,
                   SPATIAL_INDEX, DATA_PATH, DF, tmpfile, builds>>

\* matches_df[distance_meters <= radius].sort_values(...).head(limit) on
\* the call's frame; rows at equal distance in any order.
FrameResults(frame, r, limit) ==
    LET keep == {j \in DOMAIN frame : frame[j].d2 <= r * r}
        n == Cardinality(keep)
    IN  {Take([k \in 1..n |-> frame[g[k]]], limit) :
            g \in {h \in [1..n -> keep] :
                     /\ \A a, b \in 1..n : a # b => h[a] # h[b]
                     /\ \A a \in 1..(n - 1) :
                            frame[h[a]].d2 <= frame[h[a + 1]].d2}}

\* The outcomes the call of thread t can end with, from what it holds.
ReaderOutcomes(t) ==
    LET q == threads[t].q
        frame == threads[t].frame
        acc == threads[t].acc
    IN  IF q.op = "query_radius"
        THEN {[status |-> "ok", rows |-> rows] :
                 rows \in FrameResults(frame, q.r, q.limit)}
        ELSE IF q.op = "query_nearest"
        THEN {[status |-> "raised", exc |-> "TypeError"]}
             \cup {[status |-> "ok", rows |-> NearestRows(q.c, nearest_idx, q.count)] :
                      nearest_idx \in TreeNearest(q.c)}
        ELSE IF q.op = "filter_df"
        THEN {FilterOutcome(frame, q.start, q.end, q.crime_type, q.bbox)}
        ELSE IF Len(q.coords) < 2
        THEN {[status |-> "raised", exc |-> "ValueError"]}
        ELSE IF LineLength(q.coords) = 0
        THEN {[status |-> "ok", value |-> ZeroLengthResult]}
        ELSE {[status |-> "ok",
               value |-> [score |-> RatDiv(acc.total_weight,
                                           Rat(LineLength(q.coords), 1000)),
                          incidents |-> acc.incident_count,
                          length_km |-> Rat(LineLength(q.coords), 1000),
                          total_weight |-> acc.total_weight]]}

\* The call's last statements: its result is complete.
ReaderFinish(t) ==
    /\ \/ threads[t].pc = "measured"
       \/ /\ threads[t].pc = "running"
          /\ threads[t].q.op \in {"query_radius", "score_route"}
                => threads[t].frame = <<>>
    /\ \E out \in ReaderOutcomes(t) :
          threads' = [threads EXCEPT ![t].pc = "done", ![t].result = out]
    /\ UNCHANGED <<points, weights, call, ret, counted, clock, records,
                   SPATIAL_INDEX, DATA_PATH, DF, tmpfile, builds>>

\* The endpoint answers and the thread goes back to the pool.
ReaderReturn(t) ==
    /\ threads[t].pc = "done"
    /\ threads' = [threads EXCEPT ![t] = ReaderIdle]
    /\ UNCHANGED <<points, weights, call, ret, counted, clock, records,
                   SPATIAL_INDEX, DATA_PATH, DF, tmpfile, builds>>

NextReaders ==
    \/ \E t \in Threads, q \in ReaderCalls : ReaderBegin(t, q)
    \/ \E t \in Threads : ReaderDistances(t)
    \/ \E t \in Threads : ReaderScoreStep(t)
    \/ \E t \in Threads : ReaderFinish(t)
    \/ \E t \in Threads : ReaderReturn(t)

\* The index built by load_index at time 0 from a.csv is the cached one,
\* and the pool is at rest.
InitReaders ==
    /\ \E rows \in SeqsUpTo(FilterPool, MaxRows) \ {<<>>} :
          /\ records = BuiltIndex(rows, 0).df
          /\ points = BuiltIndex(rows, 0).points
          /\ weights = BuiltIndex(rows, 0).weights
    /\ call = NoCall
    /\ ret = NoRet
    /\ counted = {}
    /\ clock = 0
    /\ SPATIAL_INDEX = [id |-> 1, data |-> "a.csv"]
    /\ DATA_PATH = "a.csv"
    /\ DF = "none"
    /\ tmpfile = "absent"
    /\ builds = 1
    /\ threads = [t \in Threads |-> ReaderIdle]

SpecReaders == InitReaders /\ [][NextReaders]_vars

---------------------------------------------------------------------------
(* Properties of concurrent readers.                                       *)

\* The outcomes of the call q when it runs alone on the index.
AloneOutcomes(q) ==
    IF q.op = "query_radius"
    THEN {[status |-> "ok", rows |-> rows] :
             rows \in RadiusResults(q.c, q.r, q.limit)}
    ELSE IF q.op = "query_nearest"
    THEN {[status |-> "raised", exc |-> "TypeError"]}
         \cup {[status |-> "ok", rows |-> NearestRows(q.c, nearest_idx, q.count)] :
                  nearest_idx \in TreeNearest(q.c)}
    ELSE IF q.op = "filter_df"
    THEN {FilterOutcome(Filtered(q.start, q.end, q.crime_type),
                        q.start, q.end, q.crime_type, q.bbox)}
    ELSE IF Len(q.coords) < 2
    THEN {[status |-> "raised", exc |-> "ValueError"]}
    ELSE {[status |-> "ok", value |-> ScoreDict(q.coords, q.r)]}

\* The rows of a finished query, reduced to position and distance.
RowsOf(result) ==
    [j \in DOMAIN result.rows |->
        [idx |-> result.rows[j].idx, d2 |-> result.rows[j].d2]]

SameAsAlone(t) ==
    LET q == threads[t].q
        result == threads[t].result
    IN  IF q.op = "query_radius"
        THEN /\ [status |-> result.status, rows |-> RowsOf(result)]
                    \in AloneOutcomes(q)
             /\ \A j \in DOMAIN result.rows :
                    result.rows[j].row =
                        WithDistance(records[result.rows[j].idx],
                                     result.rows[j].d2)
        ELSE result \in AloneOutcomes(q)

\* C21: no interleaving of query_radius, query_nearest, filter_df and
\* score_route calls changes the records, points or weights of the index they
\* read, and every call ends with a result it could have had running alone.
C21_ReadersIsolated ==
    /\ [](\A t \in Threads : threads[t].pc = "done" => SameAsAlone(t))
    /\ [][/\ records' = records
          /\ points' = points
          /\ weights' = weights]_vars

\* Two calls overlap: one has measured its distances and is still in flight
\* while a route scoring that counted an incident is complete.
C21_Witness ==
    /\ threads["t1"].pc = "measured"
    /\ threads["t2"].pc = "done"
    /\ threads["t2"].q.op = "score_route"
    /\ threads["t2"].result.status = "ok"
    /\ threads["t2"].result.value.incidents > 0

---------------------------------------------------------------------------
(* The cached index as a service: ensure_spatial_index, the queries that   *)
(* call it, reload_spatial_index and the endpoints /reload, /upload and    *)
(* /crimes, run by the threads of the server statement by statement.       *)

MaxBuilds == 2

\* Data paths: two files that load, one file without the required columns
\* and one path that does not exist.
Paths == {"a.csv", "b.csv", "bad.csv", "gone.csv"}

Existing == {"a.csv", "b.csv", "bad.csv"}

Loadable == {"a.csv", "b.csv"}

\* reload_spatial_index(path): path is optional.
ReloadArgs == {"none", "b.csv", "bad.csv", "gone.csv"}

\* The pieces a query reads from the index it got: tree, then df.
NumPieces == 2

others == <<points, weights, call, ret, counted, clock, records>>

\* The call of thread t ends with an exception raised at statement `at`.
Raise(t, exc, at) ==
    [threads EXCEPT ![t].pc = "done", ![t].status = "raised",
                    ![t].exc = exc, ![t].at = at]

\* A request for query_radius, query_nearest, filter_df or /routes/analyze
\* arrives: its first statement is the call of ensure_spatial_index.
BeginQuery(t) ==
    /\ threads[t].pc = "idle"
    /\ threads' = [threads EXCEPT ![t].pc = "check", ![t].op = "query"]
    /\ UNCHANGED <<others, SPATIAL_INDEX, DATA_PATH, DF, tmpfile, builds>>

\* reload_spatial_index(path) is called.
BeginReload(t, path) ==
    /\ threads[t].pc = "idle"
    /\ builds < MaxBuilds
    /\ threads' = [threads EXCEPT ![t].pc = "set_path", ![t].op = "reload",
                                  ![t].arg = path,
                                  ![t].old_index = SPATIAL_INDEX,
                                  ![t].old_path = DATA_PATH]
    /\ UNCHANGED <<others, SPATIAL_INDEX, DATA_PATH, DF, tmpfile, builds>>

\* if path: settings.DATA_PATH = path
SetPath(t) ==
    /\ threads[t].pc = "set_path"
    /\ DATA_PATH' = IF threads[t].arg # "none" THEN threads[t].arg ELSE DATA_PATH
    /\ threads' = [threads EXCEPT ![t].pc = "clear"]
    /\ UNCHANGED <<others, SPATIAL_INDEX, DF, tmpfile, builds>>

\* SPATIAL_INDEX = None  # Clear cache
ClearCache(t) ==
    /\ threads[t].pc = "clear"
    /\ SPATIAL_INDEX' = NoIndex
    /\ threads' = [u \in Threads |->
                      IF u = t THEN [threads[u] EXCEPT !.pc = "check"]
                      ELSE IF threads[u].pc \notin {"idle", "done"}
                      THEN [threads[u] EXCEPT !.reloaded = TRUE]
                      ELSE threads[u]]
    /\ UNCHANGED <<others, DATA_PATH, DF, tmpfile, builds>>

\* if SPATIAL_INDEX is None:
CheckCache(t) ==
    /\ threads[t].pc = "check"
    /\ threads' = [threads EXCEPT
          ![t].pc = IF SPATIAL_INDEX = NoIndex THEN "resolve" ELSE "ret"]
    /\ UNCHANGED <<others, SPATIAL_INDEX, DATA_PATH, DF, tmpfile, builds>>

\* The path is looked up, the file read and its columns standardized, all
\* in locals of the call.
Resolve(t) ==
    /\ threads[t].pc = "resolve"
    /\ threads' =
          IF DATA_PATH \notin Existing
          THEN Raise(t, "FileNotFoundError", "resolve")
          ELSE IF DATA_PATH \notin Loadable
          THEN Raise(t, "KeyError", "standardize")
          ELSE [threads EXCEPT ![t].pc = "write", ![t].data = DATA_PATH]
    /\ UNCHANGED <<others, SPATIAL_INDEX, DATA_PATH, DF, tmpfile, builds>>

\* final_df.to_csv("/tmp/standardized_crimes.csv")
WriteTemp(t) ==
    /\ threads[t].pc = "write"
    /\ tmpfile' = threads[t].data
    /\ threads' = [threads EXCEPT ![t].pc = "load"]
    /\ UNCHANGED <<others, SPATIAL_INDEX, DATA_PATH, DF, builds>>

\* load_index(temp_path) reads the file that is there now and builds.
LoadTemp(t) ==
    /\ threads[t].pc = "load"
    /\ threads' =
          IF tmpfile = "absent"
          THEN Raise(t, "FileNotFoundError", "load")
          ELSE [threads EXCEPT ![t].pc = "assign", ![t].built = tmpfile]
    /\ UNCHANGED <<others, SPATIAL_INDEX, DATA_PATH, DF, tmpfile, builds>>

\* SPATIAL_INDEX = <the dict load_index returned>: a new instance.
AssignIndex(t) ==
    /\ threads[t].pc = "assign"
    /\ SPATIAL_INDEX' = [id |-> builds + 1, data |-> threads[t].built]
    /\ builds' = builds + 1
    /\ threads' = [threads EXCEPT ![t].pc = "remove"]
    /\ UNCHANGED <<others, DATA_PATH, DF, tmpfile>>

\* os.remove(temp_path)
RemoveTemp(t) ==
    /\ threads[t].pc = "remove"
    /\ tmpfile' = "absent"
    /\ threads' =
          IF tmpfile = "absent"
          THEN Raise(t, "FileNotFoundError", "remove")
          ELSE [threads EXCEPT ![t].pc = "print"]
    /\ UNCHANGED <<others, SPATIAL_INDEX, DATA_PATH, DF, builds>>

\* print(... len(SPATIAL_INDEX['df']) ...) reads the global again.
PrintBuilt(t) ==
    /\ threads[t].pc = "print"
    /\ threads' =
          IF SPATIAL_INDEX = NoIndex
          THEN Raise(t, "TypeError", "print")
          ELSE [threads EXCEPT ![t].pc = "ret"]
    /\ UNCHANGED <<others, SPATIAL_INDEX, DATA_PATH, DF, tmpfile, builds>>

\* return SPATIAL_INDEX: the value of the global at this moment.  It is the
\* result of reload_spatial_index, and the local spatial_index of a query.
ReturnIndex(t) ==
    /\ threads[t].pc = "ret"
    /\ threads' = [threads EXCEPT
          ![t].ref = SPATIAL_INDEX,
          ![t].pc = IF threads[t].op = "reload" THEN "done" ELSE "use",
          ![t].status = IF threads[t].op = "reload" THEN "ok" ELSE @]
    /\ UNCHANGED <<others, SPATIAL_INDEX, DATA_PATH, DF, tmpfile, builds>>

\* spatial_index['tree'], spatial_index['df'], ...: the query reads a piece
\* from the dict it got; subscripting None raises TypeError.
ReadPiece(t) ==
    /\ threads[t].pc = "use"
    /\ threads' =
          IF threads[t].ref = NoIndex
          THEN Raise(t, "TypeError", "use")
          ELSE [threads EXCEPT
                  ![t].pieces = Append(@, threads[t].ref.id),
                  ![t].pc = IF Len(threads[t].pieces) + 1 = NumPieces
                            THEN "done" ELSE "use",
                  ![t].status = IF Len(threads[t].pieces) + 1 = NumPieces
                                THEN "ok" ELSE @]
    /\ UNCHANGED <<others, SPATIAL_INDEX, DATA_PATH, DF, tmpfile, builds>>

\* The outcome goes to the client and the thread back to the pool.
EndRequest(t) ==
    /\ threads[t].pc = "done"
    /\ threads' = [threads EXCEPT ![t] = IdleThread]
    /\ UNCHANGED <<others, SPATIAL_INDEX, DATA_PATH, DF, tmpfile, builds>>

\* POST /reload with a path that exists, and POST /upload: the path is set
\* and the dataset behind /crimes and /clusters loaded from it; load_dataset
\* raises on a file without the required columns, after the path was set.
RouterReload(t, path) ==
    /\ threads[t].pc = "idle"
    /\ path \in Existing
    /\ path # DATA_PATH \/ DF # path
    /\ DATA_PATH' = path
    /\ DF' = IF path \in Loadable THEN path ELSE DF
    /\ UNCHANGED <<others, SPATIAL_INDEX, tmpfile, threads, builds>>

\* GET /crimes, /clusters, /health: data_loader.ensure_loaded loads the
\* dataset when none is loaded yet.
EnsureLoaded(t) ==
    /\ threads[t].pc = "idle"
    /\ DF = "none"
    /\ DATA_PATH \in Loadable
    /\ DF' = DATA_PATH
    /\ UNCHANGED <<others, SPATIAL_INDEX, DATA_PATH, tmpfile, threads, builds>>

\* The statements of ensure_spatial_index and of the queries around it.
EnsureSteps(t) ==
    \/ CheckCache(t)
    \/ Resolve(t)
    \/ WriteTemp(t)
    \/ LoadTemp(t)
    \/ AssignIndex(t)
    \/ RemoveTemp(t)
    \/ PrintBuilt(t)
    \/ ReturnIndex(t)
    \/ ReadPiece(t)
    \/ EndRequest(t)

\* The server as its routers drive it: no router calls
\* reload_spatial_index.
NextEndpoints ==
    \/ \E t \in Threads : BeginQuery(t)
    \/ \E t \in Threads : EnsureSteps(t)
    \/ \E t \in Threads, path \in Paths : RouterReload(t, path)
    \/ \E t \in Threads : EnsureLoaded(t)

SpecEndpoints == InitEmpty /\ [][NextEndpoints]_vars

\* The queries together with calls of reload_spatial_index.
NextService ==
    \/ \E t \in Threads : BeginQuery(t)
    \/ \E t \in Threads : EnsureSteps(t)
    \/ \E t \in Threads, path \in ReloadArgs : BeginReload(t, path)
    \/ \E t \in Threads : SetPath(t)
    \/ \E t \in Threads : ClearCache(t)

SpecService == InitEmpty /\ [][NextService]_vars

---------------------------------------------------------------------------
(* Properties of the cached index.                                         *)

\* Thread t is inside reload_spatial_index, called while an index was cached.
ReloadInProgress(t) ==
    /\ threads[t].op = "reload"
    /\ threads[t].pc \notin {"idle", "done"}
    /\ threads[t].old_index # NoIndex

\* C22: a reload swaps the cached reference from the old instance to the new
\* one in one step: while a reload is in progress no reader finds the
\* reference absent and goes on to build an index of its own.
C22_AtomicSwap ==
    [][\A u \in Threads :
          (/\ threads[u].op = "query"
           /\ threads[u].pc = "check"
           /\ \E t \in Threads \ {u} : ReloadInProgress(t))
          => threads'[u].pc # "resolve"]_vars

\* C23: a query that is in progress when a reload (of a path that loads)
\* clears the cache completes normally, with every piece it read taken from
\* one and the same instance.
C23_InFlightCompletes ==
    \A t \in Threads :
        (/\ threads[t].op = "query"
         /\ threads[t].pc = "done"
         /\ threads[t].reloaded
         /\ DATA_PATH \in Loadable)
        => /\ threads[t].status = "ok"
           /\ Len(threads[t].pieces) = NumPieces
           /\ \A i, j \in DOMAIN threads[t].pieces :
                  threads[t].pieces[i] = threads[t].pieces[j]

\* C27: concurrent ensure_spatial_index calls without a reload build the
\* index at most once, return the same instance to every caller, and none
\* fails on the shared temporary file.
C27_BuiltOnce ==
    /\ builds <= 1
    /\ \A t \in Threads :
          ~(threads[t].status = "raised" /\ threads[t].at \in {"load", "remove"})
    /\ \A t, u \in Threads :
          (threads[t].status = "ok" /\ threads[u].status = "ok")
          => threads[t].ref = threads[u].ref

\* C28: when reload_spatial_index fails, the index that was cached before
\* and the previous DATA_PATH are still in place.
C28_FailedReloadKeepsOld ==
    \A t \in Threads :
        (/\ threads[t].op = "reload"
         /\ threads[t].pc = "done"
         /\ threads[t].status = "raised"
         /\ threads[t].old_index # NoIndex)
        => /\ SPATIAL_INDEX = threads[t].old_index
           /\ DATA_PATH = threads[t].old_path

\* C29: the dataset behind /crimes and /clusters and the cached spatial index
\* behind /crimes/radius, /crimes/nearest and /routes/analyze hold the data
\* of the same path.
C29_SameDataset ==
    (DF # "none" /\ SPATIAL_INDEX # NoIndex) => SPATIAL_INDEX.data = DF

---------------------------------------------------------------------------
(* The index of one crime type: get_filtered_spatial_index, as the module  *)
(* binds the name (the second definition replaces the first).              *)

\* The columns of the frame load_index keeps in the index.
IndexColumns == {"lat", "lng", "crime_type", "date", "weight", "pt", "pt_wgs"}

\* str.lower() on the column names in play.
Lower(name) == IF name = "MCI_CATEGORY" THEN "mci_category" ELSE name

\* One candidate name of _infer_column: the column of that name, or the
\* column with that name in lower case, or none.
ColumnFor(columns, name) ==
    IF name \in columns THEN {name}
    ELSE {c \in columns : Lower(c) = Lower(name)}

\* _infer_column(df, preferred, alts): the first candidate that has a
\* column, or KeyError.
RECURSIVE InferColumn(_, _)
InferColumn(columns, names) ==
    IF names = <<>> THEN [found |-> FALSE, exc |-> "KeyError"]
    ELSE IF ColumnFor(columns, Head(names)) # {}
    THEN [found |-> TRUE, col |-> CHOOSE c \in ColumnFor(columns, Head(names)) : TRUE]
    ELSE InferColumn(columns, Tail(names))

\* crime_type_mapping: the names it knows map to themselves.
CrimeTypeMapping == {"Assault", "Auto Theft", "Break and Enter", "Robbery", "Theft Over"}

\* The crime types the endpoint is asked for.
FilterTypes == {"Assault", "Auto Theft", "Robbery", "Theft"}

\* The file names load_index_from_df uses: it writes the rows to the .csv
\* name and hands the .pkl name, which nothing writes, to load_index.
CsvName(temp_path) == [stem |-> temp_path.stem, ext |-> "csv"]

LoadIndexFromDf(df, temp_path, now) ==
    LET written == {CsvName(temp_path)}
    IN  IF temp_path \notin written
        THEN [status |-> "raised", exc |-> "FileNotFoundError"]
        ELSE [status |-> "ok", value |-> BuiltIndex(df, now)]

\* What get_filtered_spatial_index returns: every exception is caught and
\* answered with None.
FilteredIndex(crime_type, now) ==
    LET none == [status |-> "ok", none |-> TRUE]
        mci == InferColumn(IndexColumns,
                           <<"MCI_CATEGORY", "MCI_CATEGORY", "mci_category", "category">>)
    IN  IF records = <<>> THEN none
        ELSE IF crime_type \notin CrimeTypeMapping THEN none
        ELSE IF ~mci.found THEN none
        ELSE LET filtered_df == SelectSeq(records, LAMBDA row : row[mci.col] = crime_type)
                 built == LoadIndexFromDf(filtered_df,
                              [stem |-> crime_type, ext |-> "pkl"], now)
             IN  IF filtered_df = <<>> THEN none
                 ELSE IF built.status = "raised" THEN none
                 ELSE [status |-> "ok", none |-> FALSE, value |-> built.value]

GetFilteredSpatialIndex(crime_type) ==
    /\ Idle
    /\ ret' = FilteredIndex(crime_type, clock)
    /\ call' = [op |-> "get_filtered_spatial_index", crime_type |-> crime_type]
    /\ UNCHANGED <<points, weights, counted, clock, records, service>>

NextFiltered ==
    \/ \E crime_type \in FilterTypes : GetFilteredSpatialIndex(crime_type)
    \/ Return

SpecFiltered == InitFilter /\ [][NextFiltered]_vars

\* The rows of the full index with exactly this crime type.
RowsOfType(crime_type) ==
    SelectSeq(records, LAMBDA row : row.crime_type = crime_type)

\* C26: for a crime type of the mapping that has records,
\* get_filtered_spatial_index returns an index of exactly the records of that
\* type, with points and weights aligned to them.
C26_FilteredIndexBuilt ==
    (/\ call.op = "get_filtered_spatial_index"
     /\ call.crime_type \in CrimeTypeMapping
     /\ RowsOfType(call.crime_type) # <<>>)
    => /\ ~ret.none
       /\ ret.value.df = RowsOfType(call.crime_type)
       /\ Len(ret.value.points) = Len(ret.value.df)
       /\ Len(ret.value.weights) = Len(ret.value.df)
       /\ \A i \in DOMAIN ret.value.df :
              /\ ret.value.points[i] = ret.value.df[i].pt
              /\ ret.value.weights[i] = ret.value.df[i].weight

=============================================================================
